---- MODULE Spec2Model ----
(***************************************************************************)
(* Model of tiktok.py: the TikTokTrendApp window (UI thread), its          *)
(* QThreadPool of one thread, the TrendWorker / VeoPromptWorker runnables  *)
(* and the queued signals that carry their results back to the UI thread.  *)
(***************************************************************************)
EXTENDS Integers, Sequences, FiniteSets, TLC

\* ---------------------------------------------------------------- bounds
\* total number of work items ever handed to the pool (the first one is
\* the constructor's own fetch_trends call)
MaxSubmit == 3
\* longest hashtag list a reply carries
MaxHashtags == 3
\* longest topic text the user types
MaxTopicLen == 1

\* ------------------------------------------------------ program constants
\* threadpool.setMaxThreadCount(1)
\* (maxThreadCount_two: a pool left with room for a second thread)
maxThreadCount_two == 1 + 1
maxThreadCount == 1

\* two of the ten REGIONS entries
RegionNames == {"United States", "Global"}
REGIONS == [r \in RegionNames |-> IF r = "United States" THEN "US" ELSE "GLOBAL"]

\* ------------------------------------------------------------ data values
\* a text is a sequence of characters; " " is the only whitespace drawn
TopicChars == {" ", "x"}
GeneralTopic == <<"g", "e", "n", "e", "r", "a", "l">>

RECURSIVE SeqsUpTo(_, _)
SeqsUpTo(S, n) ==
    IF n = 0 THEN {<<>>}
    ELSE LET shorter == SeqsUpTo(S, n - 1)
         IN  shorter \cup {Append(s, c) : s \in {t \in shorter : Len(t) = n - 1}, c \in S}

TopicInputs == SeqsUpTo(TopicChars, MaxTopicLen)

\* str.strip(): drop leading and trailing whitespace
RECURSIVE lstrip(_)
lstrip(s) == IF s # <<>> /\ Head(s) = " " THEN lstrip(Tail(s)) ELSE s
RECURSIVE rstrip(_)
rstrip(s) == IF s # <<>> /\ s[Len(s)] = " " THEN rstrip(SubSeq(s, 1, Len(s) - 1)) ELSE s
strip(s) == rstrip(lstrip(s))

\* a dict as the trend code reads it: whether it has any key at all, and
\* the lengths of the three lists it is asked for with .get(key, []); the dicts
\* drawn have each hashtag count alone, and a song or a search term alone
Dicts == {[empty |-> FALSE, h |-> h, s |-> 0, g |-> 0] : h \in 0..MaxHashtags}
           \cup {[empty |-> FALSE, h |-> 0, s |-> 1, g |-> 0],
                 [empty |-> FALSE, h |-> 0, s |-> 0, g |-> 1]}
EmptyDict == [empty |-> TRUE, h |-> 0, s |-> 0, g |-> 0]

\* the text of parts[0] of a reply: the empty string, prose, a JSON array
\* of n items, or a JSON object
EmptyText == [form |-> "empty", n |-> 0, obj |-> EmptyDict]
ProseText == [form |-> "prose", n |-> 0, obj |-> EmptyDict]
ArrayText(n) == [form |-> "array", n |-> n, obj |-> EmptyDict]
ObjectText(d) == [form |-> "object", n |-> 0, obj |-> d]
Texts == {EmptyText, ProseText} \cup {ArrayText(n) : n \in 0..1}
             \cup {ObjectText(d) : d \in Dicts \cup {EmptyDict}}

\* what the HTTP exchange of one call produces
Replies == {[status |-> "transport_error", text |-> EmptyText],
            [status |-> "body_not_json", text |-> EmptyText],
            [status |-> "no_candidates", text |-> EmptyText]}
              \cup {[status |-> "ok", text |-> t] : t \in Texts}

\* no reply yet
NoReply == [status |-> "", text |-> EmptyText]

\* Python values a call returns
NoneValue == [ty |-> "None", text |-> EmptyText]
StrValue(t) == [ty |-> "str", text |-> t]
ListValue(t) == [ty |-> "list", text |-> t]
DictValue(t) == [ty |-> "dict", text |-> t]

\* bool(v)
truthy(v) ==
    CASE v.ty = "None" -> FALSE
      [] v.ty = "str"  -> v.text.form # "empty"
      [] v.ty = "list" -> v.text.n > 0
      [] v.ty = "dict" -> ~v.text.obj.empty

\* json.loads(text): raises on anything that is not JSON
json_loads(t) ==
    CASE t.form = "array"  -> [exc |-> "", value |-> ListValue(t)]
      [] t.form = "object" -> [exc |-> "", value |-> DictValue(t)]
      [] OTHER             -> [exc |-> "JSONDecodeError", value |-> NoneValue]

\* call_gemini_api: the outcome of one POST, as a value or a raised exception
call_gemini_api(reply, response_schema) ==
    CASE reply.status = "transport_error" -> [exc |-> "RequestException", value |-> NoneValue]
      [] reply.status = "body_not_json"   -> [exc |-> "JSONDecodeError", value |-> NoneValue]
      [] reply.status = "no_candidates"   -> [exc |-> "", value |-> NoneValue]
      [] OTHER -> IF response_schema THEN json_loads(reply.text)
                  ELSE [exc |-> "", value |-> StrValue(reply.text)]

generate_trends_with_llm(reply) == call_gemini_api(reply, TRUE)
generate_veo_prompt_with_llm(reply) == call_gemini_api(reply, FALSE)

\* ----------------------------------------------------------- work items
\* the two QRunnable classes
WorkKinds == {"TrendWorker", "VeoPromptWorker"}

\* the message strings the workers and the window pass to the error dialog
\* (e is the exception text interpolated into the message, "" if none)
Message(text, e) == [text |-> text, e |-> e]

\* a signal emitted with its argument
Notification(sig, value, message) == [sig |-> sig, value |-> value, message |-> message]
NoMessage == Message("", "")

\* TrendWorker.run, from the outcome of generate_trends_with_llm on: the
\* signals it emits, in order
\* (TrendWorker_run_unchecked: a run() without the "if generated_data" test)
TrendWorker_run_unchecked(outcome) ==
    IF outcome.exc # ""
    THEN <<Notification("error_occurred", NoneValue,
                        Message("Error during LLM trend data generation", outcome.exc))>>
    ELSE IF outcome.value.ty = "dict"
         THEN <<Notification("data_generated", outcome.value, NoMessage)>>
         ELSE <<Notification("error_occurred", NoneValue,
                             Message("Error during LLM trend data generation", "TypeError"))>>

TrendWorker_run(outcome) ==
    IF outcome.exc # ""
    THEN <<Notification("error_occurred", NoneValue,
                        Message("Error during LLM trend data generation", outcome.exc))>>
    ELSE IF truthy(outcome.value)
         THEN IF outcome.value.ty = "dict"
              THEN <<Notification("data_generated", outcome.value, NoMessage)>>
              \* data_generated is pyqtSignal(dict): emit() of another type raises
              \* TypeError inside the try block
              ELSE <<Notification("error_occurred", NoneValue,
                                  Message("Error during LLM trend data generation", "TypeError"))>>
         ELSE <<Notification("error_occurred", NoneValue,
                             Message("LLM could not generate valid trend data", ""))>>

\* VeoPromptWorker.run, from the outcome of generate_veo_prompt_with_llm on
VeoPromptWorker_run(outcome) ==
    IF outcome.exc # ""
    THEN <<Notification("error_occurred", NoneValue,
                        Message("Error during Veo prompt generation", outcome.exc))>>
    ELSE IF truthy(outcome.value)
         THEN <<Notification("prompt_generated", outcome.value, NoMessage)>>
         ELSE <<Notification("error_occurred", NoneValue,
                             Message("LLM could not generate a valid Veo prompt", ""))>>

\* ------------------------------------------------------------------ state
VARIABLES
    \* widgets of the window
    fetch_button,          \* enabled?
    generate_veo_button,   \* enabled?
    copy_prompt_button,    \* enabled?
    status_label,
    topic_input,
    trend_output,
    veo_prompt_output,
    veo_placeholder,
    clipboard,
    dialogs,               \* stack of open modal message boxes, top last
    \* fields of the window
    current_trend_data,
    current_topic,
    current_region_name,
    \* the thread pool
    queue,                 \* ids of the runnables waiting, first in front
    active,                \* ids of the runnables a pool thread is in
    workers,               \* the live runnables: id -> fields and position in run()
    \* the UI thread's event queue: signals emitted and not yet handled
    events,
    \* process
    alive,                 \* FALSE once an unhandled exception aborted the application
    \* history
    nextId,                \* id the next runnable gets; ids count submissions
    calls,                 \* id -> number of POSTs made for it
    emits,                 \* id -> signals it emitted, in order
    handled,               \* ids whose signal a slot has been run for
    data_request,          \* topic and region of the trend request whose result
                           \* current_trend_data is
    op                     \* the last step: the operation, and the kind of work item
                           \* it ran for or whose signal it handled ("" if none)

widgets == <<fetch_button, generate_veo_button, copy_prompt_button, status_label,
             topic_input, trend_output, veo_prompt_output, veo_placeholder,
             clipboard, dialogs>>
fields == <<current_trend_data, current_topic, current_region_name>>
pool == <<queue, active, workers>>
history == <<nextId, calls, emits, handled, data_request>>
vars == <<widgets, fields, pool, events, alive, history, op>>

Ids == 1..MaxSubmit
Op(name, kind) == [name |-> name, kind |-> kind]

\* QThreadPool.start(): a free thread takes the runnable at once, else it waits
\* in the queue behind those already waiting
\* (enqueueTask_front: a pool that puts the newcomer in front instead)
enqueueTask_front(q, id) == <<id>> \o q
enqueueTask(q, id) == Append(q, id)

threadpool_start(id, w) ==
    /\ workers' = [i \in DOMAIN workers \cup {id} |-> IF i = id THEN w ELSE workers[i]]
    /\ IF Cardinality(active) < maxThreadCount
       THEN active' = active \cup {id} /\ queue' = queue
       ELSE active' = active /\ queue' = enqueueTask(queue, id)
    /\ nextId' = id + 1

\* a runnable as constructed: its fields, run() not yet entered
TrendWorker(topic, region_name, region_code) ==
    [kind |-> "TrendWorker", topic |-> topic, region_name |-> region_name,
     region_code |-> region_code, trend_data |-> EmptyDict,
     pc |-> "call", reply |-> NoReply, notes |-> <<>>]
VeoPromptWorker(trend_data, topic, region_name) ==
    [kind |-> "VeoPromptWorker", topic |-> topic, region_name |-> region_name,
     region_code |-> "", trend_data |-> trend_data,
     pc |-> "call", reply |-> NoReply, notes |-> <<>>]

\* no trend request has given a result yet
NoRequest == [topic |-> <<>>, region_name |-> ""]

Placeholder == [shown |-> "asking", data |-> EmptyDict]

\* the state __init__ leaves: init_ui, then its fetch_trends() call with the
\* default topic and region, whose worker the idle pool starts at once
Init ==
    /\ fetch_button = FALSE
    /\ generate_veo_button = FALSE
    /\ copy_prompt_button = FALSE
    /\ status_label = "Generating trends..."
    /\ topic_input = GeneralTopic
    /\ trend_output = Placeholder
    /\ veo_prompt_output = EmptyText
    /\ veo_placeholder = "AI video prompt will appear here..."
    /\ clipboard = EmptyText
    /\ dialogs = <<>>
    /\ current_trend_data = EmptyDict
    /\ current_topic = GeneralTopic
    /\ current_region_name = "United States"
    /\ queue = <<>>
    /\ active = {1}
    /\ workers = [i \in {1} |-> TrendWorker(GeneralTopic, "United States", "US")]
    /\ events = <<>>
    /\ alive = TRUE
    /\ nextId = 2
    /\ calls = [i \in Ids |-> 0]
    /\ emits = [i \in Ids |-> <<>>]
    /\ handled = {}
    /\ data_request = NoRequest
    /\ op = Op("__init__", "")

\* replies drawn for the two kinds of call: whatever the schema-constrained
\* call can get back, and for the plain-text call an empty text, prose, and a
\* text that happens to be JSON
TrendReplies == Replies
VeoReplies == {r \in Replies : r.status # "ok" \/ r.text \in {EmptyText, ProseText, ArrayText(0)}}

\* --------------------------------------------------- slots of the window
Dialog(title, message) == [title |-> title, message |-> message]

\* (display_error_message_box_keeps_veo: an error slot that leaves the Create
\* Video Prompt button as it finds it)
display_error_message_box_keeps_veo(message) ==
    /\ fetch_button' = TRUE
    /\ generate_veo_button' = generate_veo_button
    /\ copy_prompt_button' = FALSE
    /\ status_label' = "Error occurred."
    /\ dialogs' = Append(dialogs, Dialog("Operation Error", message))

\* (display_error_message_box_keeps_fetch: an error slot that leaves the
\* Generate Trends button as it finds it)
display_error_message_box_keeps_fetch(message) ==
    /\ fetch_button' = fetch_button
    /\ generate_veo_button' = TRUE
    /\ copy_prompt_button' = FALSE
    /\ status_label' = "Error occurred."
    /\ dialogs' = Append(dialogs, Dialog("Operation Error", message))

\* display_error_message_box(message), up to msg_box.exec_()
display_error_message_box(message) ==
    /\ fetch_button' = TRUE
    /\ generate_veo_button' = TRUE
    /\ copy_prompt_button' = FALSE
    /\ status_label' = "Error occurred."
    /\ dialogs' = Append(dialogs, Dialog("Operation Error", message))

\* line 413 reads tiktok_hashtags[1] and tiktok_hashtags[2] whenever the list
\* has more than one item
secondary_hashtags_raise(d) == d.h > 1 /\ d.h < 3

\* (display_trends_merge: a slot that keeps the hashtags it already holds and
\* takes only the rest from the result)
display_trends_merge(trend_data) ==
    /\ fetch_button' = TRUE
    /\ generate_veo_button' = TRUE
    /\ status_label' = "Trends generated successfully."
    /\ current_trend_data' = IF current_trend_data.empty THEN trend_data
                              ELSE [trend_data EXCEPT !.h = current_trend_data.h]
    /\ IF secondary_hashtags_raise(trend_data)
       THEN /\ trend_output' = trend_output
            /\ alive' \in BOOLEAN
       ELSE /\ trend_output' = [shown |-> "trends", data |-> trend_data]
            /\ alive' = alive

\* display_trends(trend_data)
display_trends(trend_data) ==
    /\ fetch_button' = TRUE
    /\ generate_veo_button' = TRUE
    /\ status_label' = "Trends generated successfully."
    /\ current_trend_data' = trend_data
    /\ IF secondary_hashtags_raise(trend_data)
       THEN \* IndexError leaves the slot before setHtml; PyQt5 from 5.5 on
            \* aborts the process on it, older ones print it and go on
            /\ trend_output' = trend_output
            /\ alive' \in BOOLEAN
       ELSE /\ trend_output' = [shown |-> "trends", data |-> trend_data]
            /\ alive' = alive

\* display_veo_prompt(prompt_text), up to the modal information box
display_veo_prompt(prompt_text) ==
    /\ generate_veo_button' = TRUE
    /\ copy_prompt_button' = TRUE
    /\ veo_prompt_output' = prompt_text
    /\ status_label' = "AI video prompt generated successfully!"
    /\ dialogs' = Append(dialogs, Dialog("Prompt Generated", NoMessage))

\* the user can reach the window's buttons only while no modal box is open
can_click == alive /\ dialogs = <<>>

\* (fetch_trends_keeps_copy: a fetch_trends that forgets the copy button)
fetch_trends_keeps_copy ==
    /\ can_click
    /\ fetch_button
    /\ nextId <= MaxSubmit
    /\ \E text \in TopicInputs, region \in RegionNames :
         LET topic == IF strip(text) = <<>> THEN GeneralTopic ELSE strip(text) IN
         /\ fetch_button' = FALSE
         /\ generate_veo_button' = FALSE
         /\ copy_prompt_button' = copy_prompt_button
         /\ status_label' = "Generating trends..."
         /\ trend_output' = Placeholder
         /\ veo_prompt_output' = EmptyText
         /\ veo_placeholder' = "AI video prompt will appear here..."
         /\ current_region_name' = region
         /\ current_topic' = topic
         /\ topic_input' = IF strip(text) = <<>> THEN GeneralTopic ELSE text
         /\ threadpool_start(nextId, TrendWorker(topic, region, REGIONS[region]))
    /\ op' = Op("fetch_trends", "")
    /\ UNCHANGED <<clipboard, dialogs, current_trend_data, events, alive,
                   calls, emits, handled, data_request>>

\* fetch_trends() on a click of Generate Trends, with the topic text and the
\* region the user has put into the form
fetch_trends ==
    /\ can_click
    /\ fetch_button
    /\ nextId <= MaxSubmit
    /\ \E text \in TopicInputs, region \in RegionNames :
         LET topic == IF strip(text) = <<>> THEN GeneralTopic ELSE strip(text) IN
         /\ fetch_button' = FALSE
         /\ generate_veo_button' = FALSE
         /\ copy_prompt_button' = FALSE
         /\ status_label' = "Generating trends..."
         /\ trend_output' = Placeholder
         /\ veo_prompt_output' = EmptyText
         /\ veo_placeholder' = "AI video prompt will appear here..."
         /\ current_region_name' = region
         /\ current_topic' = topic
         /\ topic_input' = IF strip(text) = <<>> THEN GeneralTopic ELSE text
         /\ threadpool_start(nextId, TrendWorker(topic, region, REGIONS[region]))
    /\ op' = Op("fetch_trends", "")
    /\ UNCHANGED <<clipboard, dialogs, current_trend_data, events, alive,
                   calls, emits, handled, data_request>>

\* (generate_veo_prompt_unguarded: a generate_veo_prompt without its test of
\* current_trend_data)
generate_veo_prompt_unguarded ==
    /\ can_click
    /\ generate_veo_button
    /\ nextId <= MaxSubmit
    /\ generate_veo_button' = FALSE
    /\ copy_prompt_button' = FALSE
    /\ veo_prompt_output' = EmptyText
    /\ veo_placeholder' = "Generating video prompt..."
    /\ status_label' = "Generating AI video prompt..."
    /\ threadpool_start(nextId, VeoPromptWorker(current_trend_data, current_topic,
                                                 current_region_name))
    /\ op' = Op("generate_veo_prompt", "")
    /\ UNCHANGED <<fetch_button, dialogs, topic_input, trend_output, clipboard, fields,
                   events, alive, calls, emits, handled, data_request>>

\* generate_veo_prompt() on a click of Create Video Prompt
generate_veo_prompt ==
    /\ can_click
    /\ generate_veo_button
    /\ IF current_trend_data.empty
       THEN /\ display_error_message_box(Message("No trend data available", ""))
            /\ UNCHANGED <<veo_prompt_output, veo_placeholder, pool, nextId>>
       ELSE /\ nextId <= MaxSubmit
            /\ generate_veo_button' = FALSE
            /\ copy_prompt_button' = FALSE
            /\ veo_prompt_output' = EmptyText
            /\ veo_placeholder' = "Generating video prompt..."
            /\ status_label' = "Generating AI video prompt..."
            /\ threadpool_start(nextId, VeoPromptWorker(current_trend_data, current_topic,
                                                         current_region_name))
            /\ UNCHANGED <<fetch_button, dialogs>>
    /\ op' = Op("generate_veo_prompt", "")
    /\ UNCHANGED <<topic_input, trend_output, clipboard, fields, events, alive,
                   calls, emits, handled, data_request>>

\* copy_veo_prompt() on a click of Copy Prompt to Clipboard
copy_veo_prompt ==
    /\ can_click
    /\ copy_prompt_button
    /\ clipboard' = veo_prompt_output
    /\ dialogs' = Append(dialogs, Dialog("Copied!", NoMessage))
    /\ op' = Op("copy_veo_prompt", "")
    /\ UNCHANGED <<fetch_button, generate_veo_button, copy_prompt_button, status_label,
                   topic_input, trend_output, veo_prompt_output, veo_placeholder,
                   fields, pool, events, alive, history>>

\* the user closes the topmost message box; the slot that opened it returns
close_message_box ==
    /\ alive
    /\ dialogs # <<>>
    /\ dialogs' = SubSeq(dialogs, 1, Len(dialogs) - 1)
    /\ op' = Op("close_message_box", "")
    /\ UNCHANGED <<fetch_button, generate_veo_button, copy_prompt_button, status_label,
                   topic_input, trend_output, veo_prompt_output, veo_placeholder,
                   clipboard, fields, pool, events, alive, history>>

\* the UI thread's event loop (the main one or a message box's) takes the
\* oldest queued signal and runs the slot connected to it
deliver_data_generated ==
    /\ alive
    /\ events # <<>>
    /\ Head(events).note.sig = "data_generated"
    /\ display_trends(Head(events).note.value.text.obj)
    /\ events' = Tail(events)
    /\ handled' = handled \cup {Head(events).src}
    /\ data_request' = [topic |-> Head(events).topic,
                        region_name |-> Head(events).region_name]
    /\ op' = Op("display_trends", Head(events).kind)
    /\ UNCHANGED <<copy_prompt_button, topic_input, veo_prompt_output, veo_placeholder,
                   clipboard, dialogs, current_topic, current_region_name, pool,
                   nextId, calls, emits>>

deliver_prompt_generated ==
    /\ alive
    /\ events # <<>>
    /\ Head(events).note.sig = "prompt_generated"
    /\ display_veo_prompt(Head(events).note.value.text)
    /\ events' = Tail(events)
    /\ handled' = handled \cup {Head(events).src}
    /\ op' = Op("display_veo_prompt", Head(events).kind)
    /\ UNCHANGED <<fetch_button, topic_input, trend_output, veo_placeholder, clipboard,
                   fields, pool, alive, nextId, calls, emits, data_request>>

deliver_error_occurred ==
    /\ alive
    /\ events # <<>>
    /\ Head(events).note.sig = "error_occurred"
    /\ display_error_message_box(Head(events).note.message)
    /\ events' = Tail(events)
    /\ handled' = handled \cup {Head(events).src}
    /\ op' = Op("display_error_message_box", Head(events).kind)
    /\ UNCHANGED <<topic_input, trend_output, veo_prompt_output, veo_placeholder,
                   clipboard, fields, pool, alive, nextId, calls, emits, data_request>>

\* ------------------------------------------------- the pool thread's steps
\* run() enters call_gemini_api and sends the POST
worker_post(id) ==
    /\ alive
    /\ id \in active
    /\ workers[id].pc = "call"
    /\ calls' = [calls EXCEPT ![id] = @ + 1]
    /\ workers' = [workers EXCEPT ![id].pc = "wait"]
    /\ op' = Op("requests.post", workers[id].kind)
    /\ UNCHANGED <<widgets, fields, queue, active, events, alive, nextId, emits, handled, data_request>>

\* where run() goes once call_gemini_api has returned or raised: on to its
\* emit, whatever the outcome
\* (after_call_retry: a run() that calls again after an exception)
after_call_retry(outcome) == IF outcome.exc # "" THEN "call" ELSE "emit"
after_call(outcome) == "emit"

\* the POST returns or raises, and run() decides on what it emits
worker_reply(id) ==
    /\ alive
    /\ id \in active
    /\ workers[id].pc = "wait"
    /\ \E reply \in IF workers[id].kind = "TrendWorker" THEN TrendReplies ELSE VeoReplies :
         LET outcome == IF workers[id].kind = "TrendWorker"
                        THEN generate_trends_with_llm(reply)
                        ELSE generate_veo_prompt_with_llm(reply)
             notes == IF workers[id].kind = "TrendWorker"
                      THEN TrendWorker_run(outcome)
                      ELSE VeoPromptWorker_run(outcome)
         IN  workers' = [workers EXCEPT ![id].pc = after_call(outcome),
                                        ![id].reply = reply,
                                        ![id].notes = notes]
    /\ op' = Op("call_gemini_api", workers[id].kind)
    /\ UNCHANGED <<widgets, fields, queue, active, events, alive, history>>

\* an emit: the window lives in another thread, so the signal is queued for it
worker_emit(id) ==
    /\ alive
    /\ id \in active
    /\ workers[id].pc = "emit"
    /\ workers[id].notes # <<>>
    /\ events' = Append(events, [src |-> id, kind |-> workers[id].kind,
                                 topic |-> workers[id].topic,
                                 region_name |-> workers[id].region_name,
                                 note |-> Head(workers[id].notes)])
    /\ emits' = [emits EXCEPT ![id] = Append(@, Head(workers[id].notes).sig)]
    /\ workers' = [workers EXCEPT ![id].notes = Tail(@),
                                  ![id].pc = IF Tail(workers[id].notes) = <<>>
                                             THEN "return" ELSE "emit"]
    /\ op' = Op("emit", workers[id].kind)
    /\ UNCHANGED <<widgets, fields, queue, active, alive, nextId, calls, handled, data_request>>

\* the pool thread's choice of the next runnable among those waiting
\* (takeFirst_last: a pool thread that takes the newest one instead)
takeFirst_last(q) == [task |-> q[Len(q)], rest |-> SubSeq(q, 1, Len(q) - 1)]
takeFirst(q) == [task |-> Head(q), rest |-> Tail(q)]

\* run() returns: the pool deletes the runnable and its thread takes the next
\* one waiting, if any
worker_return(id) ==
    /\ alive
    /\ id \in active
    /\ workers[id].pc = "return"
    /\ workers' = [i \in DOMAIN workers \ {id} |-> workers[i]]
    /\ IF queue # <<>>
       THEN /\ active' = (active \ {id}) \cup {takeFirst(queue).task}
            /\ queue' = takeFirst(queue).rest
       ELSE /\ active' = active \ {id}
            /\ queue' = queue
    /\ op' = Op("return", workers[id].kind)
    /\ UNCHANGED <<widgets, fields, events, alive, history>>

Next ==
    \/ fetch_trends
    \/ generate_veo_prompt
    \/ copy_veo_prompt
    \/ close_message_box
    \/ deliver_data_generated
    \/ deliver_prompt_generated
    \/ deliver_error_occurred
    \/ \E id \in Ids : worker_post(id)
    \/ \E id \in Ids : worker_reply(id)
    \/ \E id \in Ids : worker_emit(id)
    \/ \E id \in Ids : worker_return(id)

Spec == Init /\ [][Next]_vars

\* ----------------------------------------------------------- properties
Submitted == 1..(nextId - 1)
InQueue(i) == \E k \in 1..Len(queue) : queue[k] = i
\* a pool thread has entered the item's run()
Started(i) == i \in Submitted /\ ~InQueue(i)
\* the item's run() has returned
Finished(i) == i \in Submitted /\ i \notin DOMAIN workers
\* the item's call_gemini_api has returned or raised
CallFinished(i) == Finished(i) \/ (i \in DOMAIN workers /\ workers[i].pc \in {"emit", "return"})

\* C1: at any time at most one work item is executing on the pool, whatever
\* the user has submitted.
C1_AtMostOneExecuting == Cardinality(active) <= 1
\* an item executes while another one waits behind it
C1_Witness == Cardinality(active) = 1 /\ queue # <<>>

\* C2: Gateway calls are serialized in submission order: an item has started
\* only if every item submitted before it has finished its call.
C2_SerializedInSubmissionOrder ==
    \A i, j \in Submitted : (i < j /\ Started(j)) => CallFinished(i)
\* a later item is inside its call while yet another waits
C2_Witness ==
    \E j \in active : j > 1 /\ workers[j].pc = "wait" /\ calls[j - 1] = 1 /\ queue # <<>>

\* C3 as stated: an item has started only if the completion signal of every
\* item submitted before it has been handled by the UI thread.
C3_StartsAfterHandled ==
    \A i, j \in Submitted : (i < j /\ Started(j)) => i \in handled
\* C3 amended: an item has started only if every item submitted before it has
\* emitted its completion signal (queued for the UI thread, handled or not).
C3_StartsAfterEmitted ==
    \A i, j \in Submitted : (i < j /\ Started(j)) => emits[i] # <<>>
\* an item runs while the signal of the one before it still waits to be handled
C3_Witness ==
    \E i, j \in Submitted : i < j /\ j \in active /\ emits[i] # <<>> /\ i \notin handled

\* C4: current_trend_data changes only in the slot run for a data_generated
\* signal of a TrendWorker, and there it becomes the dict the signal carries.
C4_TrendDataOnlyByDisplayTrends ==
    [][/\ (current_trend_data' # current_trend_data => op'.name = "display_trends")
       /\ (op'.name = "display_trends" =>
             /\ events # <<>>
             /\ Head(events).note.sig = "data_generated"
             /\ Head(events).kind = "TrendWorker"
             /\ current_trend_data' = Head(events).note.value.text.obj)]_vars
\* a second successful result has replaced the first
C4_Witness ==
    /\ op.name = "display_trends"
    /\ ~current_trend_data.empty
    /\ \E i, j \in handled : i # j /\ emits[i] = <<"data_generated">>
                                   /\ emits[j] = <<"data_generated">>

\* C5: the Create Video Prompt button is enabled only while current_trend_data
\* is non-empty, and it is disabled after a trend generation failure is handled.
C5_VeoButtonOnlyWithTrends ==
    /\ generate_veo_button => ~current_trend_data.empty
    /\ op = Op("display_error_message_box", "TrendWorker") => ~generate_veo_button

\* C6: a click on Create Video Prompt with an empty current_trend_data opens
\* the error box and submits nothing: the pool, the calls made and the signals
\* queued stay as they are.
C6_NoTrendDataLocalError ==
    [][(op'.name = "generate_veo_prompt" /\ current_trend_data.empty) =>
          /\ UNCHANGED <<queue, active, workers, nextId, calls, emits, events>>
          /\ dialogs' = Append(dialogs, Dialog("Operation Error",
                                                Message("No trend data available", "")))]_vars
C6_Witness ==
    /\ op.name = "generate_veo_prompt"
    /\ current_trend_data.empty
    /\ dialogs # <<>>
    /\ dialogs[Len(dialogs)].message.text = "No trend data available"

\* C7 as stated: after a TrendWorker's failure is handled the buttons
\* display_trends enables are enabled, and after a VeoPromptWorker's failure
\* is handled the buttons display_veo_prompt enables are enabled.
C7_FailureEnablesWhatSuccessEnables ==
    /\ op = Op("display_error_message_box", "TrendWorker") =>
          fetch_button /\ generate_veo_button
    /\ op = Op("display_error_message_box", "VeoPromptWorker") =>
          generate_veo_button /\ copy_prompt_button
\* C7 amended: after a TrendWorker's failure is handled Generate Trends and
\* Create Video Prompt are enabled; after a VeoPromptWorker's failure is
\* handled Create Video Prompt is enabled and the copy button is disabled.
C7_FailureEnablesAllButCopy ==
    /\ op = Op("display_error_message_box", "TrendWorker") =>
          fetch_button /\ generate_veo_button
    /\ op = Op("display_error_message_box", "VeoPromptWorker") =>
          generate_veo_button /\ ~copy_prompt_button
C7_Witness ==
    /\ op = Op("display_error_message_box", "VeoPromptWorker")
    /\ \E i \in handled : emits[i] = <<"prompt_generated">>

\* C8: the copy button is enabled only while the prompt area holds a non-empty
\* prompt, and some VeoPromptWorker's prompt_generated signal has been handled.
C8_CopyOnlyWithPrompt ==
    copy_prompt_button =>
        /\ veo_prompt_output.form # "empty"
        /\ \E i \in handled : emits[i] = <<"prompt_generated">>
C8_Witness == copy_prompt_button /\ op.name = "display_veo_prompt"

\* the failures of a call the claim lists: transport error, reply without
\* candidate content, text that is not JSON where JSON was asked for, and an
\* empty result
GatewayFailure(kind, reply) ==
    \/ reply.status # "ok"
    \/ kind = "TrendWorker" /\ reply.text.form \in {"empty", "prose"}
    \/ kind = "TrendWorker" /\ reply.text.form = "array" /\ reply.text.n = 0
    \/ kind = "TrendWorker" /\ reply.text.form = "object" /\ reply.text.obj.empty
    \/ kind = "VeoPromptWorker" /\ reply.text.form = "empty"
\* the signals of an item: those emitted and those its run() is still to emit
Signals(i) == emits[i] \o [k \in 1..Len(workers[i].notes) |-> workers[i].notes[k].sig]

C10_QueueDepthAtMostOne ==
    Cardinality({i \in DOMAIN workers : emits[i] = <<>>}) <= 1

\* the trend requests whose completion signal no slot has run for yet: those
\* waiting or running in the pool and those whose signal is queued
UnhandledTrends ==
    {i \in DOMAIN workers : workers[i].kind = "TrendWorker" /\ i \notin handled}
      \cup {events[k].src : k \in {n \in 1..Len(events) : events[n].kind = "TrendWorker"}}

\* C11: while Generate Trends is disabled some trend request is waiting,
\* running or has its signal still to be handled; so with the pool idle and
\* no signal queued the button is enabled.
C11_FetchButtonNeverStuck ==
    /\ ~fetch_button => UnhandledTrends # {}
    /\ (DOMAIN workers = {} /\ events = <<>>) => fetch_button
\* the button is disabled and only a queued signal of a later request is left
C11_Witness ==
    /\ ~fetch_button
    /\ DOMAIN workers = {}
    /\ events # <<>>
    /\ nextId > 2

\* C12: whatever the lengths of the lists in the dict a data_generated signal
\* carries, display_trends runs to its end: the application lives on and the
\* trend area shows the rendering of that dict in place of the placeholder.
C12_DisplayTrendsCompletes ==
    op.name = "display_trends" =>
        /\ alive
        /\ trend_output = [shown |-> "trends", data |-> current_trend_data]

\* C13: a VeoPromptWorker just submitted carries current_trend_data together
\* with the topic and the region of the trend request that produced it.
C13_VeoCarriesTopicOfItsTrends ==
    (/\ op.name = "generate_veo_prompt"
     /\ (nextId - 1) \in DOMAIN workers
     /\ workers[nextId - 1].kind = "VeoPromptWorker"
     /\ workers[nextId - 1].pc = "call"
     /\ dialogs = <<>>) =>
        /\ workers[nextId - 1].trend_data = current_trend_data
        /\ workers[nextId - 1].topic = data_request.topic
        /\ workers[nextId - 1].region_name = data_request.region_name

\* C14: a prompt_generated signal is never handled while a trend request
\* submitted after its work item is still unhandled, and while any trend
\* request is unhandled the Create Video Prompt and copy buttons are disabled.
C14_NoStalePromptAfterFetch ==
    [][/\ (/\ events # <<>>
           /\ Head(events).note.sig = "prompt_generated"
           /\ events' = Tail(events)) =>
              ~\E j \in UnhandledTrends : j > Head(events).src
       /\ UnhandledTrends' # {} => ~generate_veo_button' /\ ~copy_prompt_button']_vars
====
